---- MODULE Spec2Model ----
(***************************************************************************)
(* Model of src/src/agent.py: the wizard lookup (_wizard_lookup), the      *)
(* record normalizers (_extract_wizard_info, _format_potion), the hybrid   *)
(* dispatcher (HybridAgent.run), the agent adapter                         *)
(* (HybridAgent._run_llm_agent) and the command line front end (main,      *)
(* run_query, run_repl, format_output).                                    *)
(*                                                                         *)
(* Python values are tagged records.  A Python string is a sequence of     *)
(* text fragments (single characters where the code looks at characters,  *)
(* as str.strip does).  A dict is a sequence of <<key, value>> pairs in    *)
(* insertion order.  A text that json.dumps produced is a record that      *)
(* keeps the serialized value and the formatting options; any other text   *)
(* is a plain string.                                                      *)
(***************************************************************************)
EXTENDS Integers, Sequences, FiniteSets, TLC

VARIABLES pc, mode, llm_agent, query, upstream, tool_result, httpRequests,
          llmCalls, runCalls, streamCalls, llm_behaviour, result, stdout,
          record, normalized

vars == <<pc, mode, llm_agent, query, upstream, tool_result, httpRequests,
          llmCalls, runCalls, streamCalls, llm_behaviour, result, stdout,
          record, normalized>>

(***************************************************************************)
(* Program constants and bounds                                            *)
(***************************************************************************)
\* off by one: one record too many is taken
MAX_WIZARD_RESULTS_OffByOne == 5 + 1

MAX_WIZARD_RESULTS == 5

MaxUpstream == 6

MaxQueryLen == 2

MaxChunks == 2

(***************************************************************************)
(* Python values                                                           *)
(***************************************************************************)
None == [t |-> "null"]

Bool(b) == [t |-> "bool", b |-> b]

Num(n) == [t |-> "num", n |-> n]

Str(s) == [t |-> "str", s |-> s]

List(l) == [t |-> "list", items |-> l]

Dict(d) == [t |-> "dict", d |-> d]

IsDict(v) == v.t = "dict"

\* the test `v is not None` in place of the truth value
Truthy_IsNotNone(v) == v.t # "null"

\* bool(v): the truth value Python's `or` and `if not` test
Truthy(v) ==
  CASE v.t = "null" -> FALSE
    [] v.t = "bool" -> v.b
    [] v.t = "num"  -> v.n # 0
    [] v.t = "str"  -> v.s # <<>>
    [] v.t = "list" -> v.items # <<>>
    [] v.t = "dict" -> v.d # <<>>

HasKey(v, k) == \E i \in 1..Len(v.d) : v.d[i][1] = k

\* dict.get(k): the value stored under k, None when the key is absent
DictGet(v, k) ==
  IF HasKey(v, k) THEN v.d[CHOOSE i \in 1..Len(v.d) : v.d[i][1] = k][2]
  ELSE None

\* a or b or c
Or3(a, b, c) == IF Truthy(a) THEN a ELSE IF Truthy(b) THEN b ELSE c

TypeName(v) ==
  CASE v.t = "null" -> "NoneType"
    [] v.t = "bool" -> "bool"
    [] v.t = "num"  -> "int"
    [] v.t = "str"  -> "str"
    [] v.t = "list" -> "list"
    [] v.t = "dict" -> "dict"

RECURSIVE Digits(_)
Digits(n) ==
  IF n < 10 THEN <<[i \in 0..9 |-> <<"0","1","2","3","4","5","6","7","8","9">>[i + 1]][n]>>
  ELSE Digits(n \div 10) \o Digits(n % 10)

RECURSIVE PyRepr(_)
RECURSIVE ReprItems(_)
RECURSIVE ReprPairs(_)
\* repr(v)
PyRepr(v) ==
  CASE v.t = "null" -> <<"None">>
    [] v.t = "bool" -> IF v.b THEN <<"True">> ELSE <<"False">>
    [] v.t = "num"  -> IF v.n < 0 THEN <<"-">> \o Digits(0 - v.n) ELSE Digits(v.n)
    [] v.t = "str"  -> <<"'">> \o v.s \o <<"'">>
    [] v.t = "list" -> <<"[">> \o ReprItems(v.items) \o <<"]">>
    [] v.t = "dict" -> <<"{">> \o ReprPairs(v.d) \o <<"}">>

ReprItems(l) ==
  IF l = <<>> THEN <<>>
  ELSE IF Len(l) = 1 THEN PyRepr(l[1])
  ELSE PyRepr(l[1]) \o <<", ">> \o ReprItems(Tail(l))

ReprPairs(d) ==
  IF d = <<>> THEN <<>>
  ELSE LET one == <<"'", d[1][1], "'", ": ">> \o PyRepr(d[1][2])
       IN IF Len(d) = 1 THEN one ELSE one \o <<", ">> \o ReprPairs(Tail(d))

\* str(v): a string is its own string form, anything else prints as its repr
PyStr(v) == IF v.t = "str" THEN v.s ELSE PyRepr(v)

(***************************************************************************)
(* Outcomes of a call: a returned value or a raised exception              *)
(***************************************************************************)
Return(v) == [raised |-> FALSE, val |-> v]

Raise(type, msg) == [raised |-> TRUE, exc |-> [type |-> type, msg |-> msg]]

AttributeError(v, attr) ==
  Raise("AttributeError", <<"'", TypeName(v), "' object has no attribute '", attr, "'">>)

(***************************************************************************)
(* Result normalizer                                                       *)
(***************************************************************************)
\* the potion keys tried in the wrong order
_extract_wizard_info_Swapped(wizard_data) ==
  IF ~IsDict(wizard_data) THEN AttributeError(wizard_data, "get")
  ELSE Return([name    |-> Or3(DictGet(wizard_data, "name"),
                               DictGet(wizard_data, "firstName"),
                               Str(PyStr(wizard_data))),
               potions |-> Or3(DictGet(wizard_data, "potions"),
                               DictGet(wizard_data, "elixirs"),
                               List(<<>>))])

_extract_wizard_info(wizard_data) ==
  IF ~IsDict(wizard_data) THEN AttributeError(wizard_data, "get")
  ELSE Return([name    |-> Or3(DictGet(wizard_data, "name"),
                               DictGet(wizard_data, "firstName"),
                               Str(PyStr(wizard_data))),
               potions |-> Or3(DictGet(wizard_data, "elixirs"),
                               DictGet(wizard_data, "potions"),
                               List(<<>>))])

_format_potion(potion) ==
  IF ~IsDict(potion) THEN AttributeError(potion, "get")
  ELSE Return([potion_name        |-> Or3(DictGet(potion, "name"),
                                          DictGet(potion, "title"),
                                          Str(<<"Unknown">>)),
               potion_description |-> Or3(DictGet(potion, "effect"),
                                          DictGet(potion, "description"),
                                          Str(<<>>))])

(***************************************************************************)
(* Texts: json.dumps / json.loads                                          *)
(***************************************************************************)
Plain(s) == [kind |-> "plain", s |-> s]

\* json.dumps(v, indent=..., ensure_ascii=...): the text keeps the value it
\* serializes and how it was laid out
json_dumps(v, indent, ensure_ascii) ==
  [kind |-> "json", v |-> v, indent |-> indent, ensure_ascii |-> ensure_ascii]

DigitChars == {"0", "1", "2", "3", "4", "5", "6", "7", "8", "9"}

DigitVal(c) == CHOOSE n \in 0..9 : Digits(n) = <<c>>

RECURSIVE NumberOf(_)
NumberOf(s) ==
  IF Len(s) = 1 THEN DigitVal(s[1])
  ELSE 10 * NumberOf(SubSeq(s, 1, Len(s) - 1)) + DigitVal(s[Len(s)])

\* json.loads(text): a dumped text parses back to its value; a plain text
\* parses only when it happens to be a JSON literal (here: null or digits)
json_loads(text) ==
  IF text.kind = "json" THEN Return(text.v)
  ELSE IF text.s = <<"null">> THEN Return(None)
  ELSE IF text.s # <<>> /\ (\A i \in 1..Len(text.s) : text.s[i] \in DigitChars)
            /\ (Len(text.s) = 1 \/ text.s[1] # "0")
       THEN Return(Num(NumberOf(text.s)))
  ELSE Raise("JSONDecodeError", <<"Expecting value">>)

(***************************************************************************)
(* Lookup client                                                           *)
(***************************************************************************)
Whitespace == {" ", "\t"}

RECURSIVE lstrip(_)
lstrip(s) == IF s # <<>> /\ Head(s) \in Whitespace THEN lstrip(Tail(s)) ELSE s

RECURSIVE rstrip(_)
rstrip(s) ==
  IF s # <<>> /\ s[Len(s)] \in Whitespace THEN rstrip(SubSeq(s, 1, Len(s) - 1))
  ELSE s

\* the query used as typed
strip_NoOp(s) == s

\* str.strip()
strip(s) == rstrip(lstrip(s))

Min(a, b) == IF a < b THEN a ELSE b

\* v[:n]
Slice(v, n) ==
  CASE v.t = "list" -> Return(List(SubSeq(v.items, 1, Min(n, Len(v.items)))))
    [] v.t = "str"  -> Return(Str(SubSeq(v.s, 1, Min(n, Len(v.s)))))
    [] v.t = "dict" -> Raise("TypeError", <<"unhashable type: 'slice'">>)
    [] OTHER        -> Raise("TypeError", <<"'", TypeName(v), "' object is not subscriptable">>)

\* the sequence a `for` loop over v visits
Iter(v) ==
  CASE v.t = "list" -> Return(v.items)
    [] v.t = "str"  -> Return([i \in 1..Len(v.s) |-> Str(<<v.s[i]>>)])
    [] v.t = "dict" -> Return([i \in 1..Len(v.d) |-> Str(<<v.d[i][1]>>)])
    [] OTHER        -> Raise("TypeError", <<"'", TypeName(v), "' object is not iterable">>)

\* the wizard's name left out of the entry
PotionEntry_NoWizard(name, potion_data) ==
  Dict(<< <<"potion_name", potion_data.potion_name>>,
          <<"potion_description", potion_data.potion_description>> >>)

\* {"wizard": wizard_info["name"], **potion_data}
PotionEntry(name, potion_data) ==
  Dict(<< <<"wizard", name>>,
          <<"potion_name", potion_data.potion_name>>,
          <<"potion_description", potion_data.potion_description>> >>)

RECURSIVE ForEachPotion_SkipFailed(_, _, _)
\* a failing potion recorded as an {error: ...} entry, the loop going on
ForEachPotion_SkipFailed(name, potions, potions_list) ==
  IF potions = <<>> THEN Return(potions_list)
  ELSE LET potion_data == _format_potion(Head(potions))
       IN ForEachPotion_SkipFailed(name, Tail(potions),
            Append(potions_list,
                   IF potion_data.raised THEN Dict(<< <<"error", Str(potion_data.exc.msg)>> >>)
                   ELSE PotionEntry(name, potion_data.val)))

\* the inner loop of _wizard_lookup: one entry appended per potion
RECURSIVE ForEachPotion(_, _, _)
ForEachPotion(name, potions, potions_list) ==
  IF potions = <<>> THEN Return(potions_list)
  ELSE LET potion_data == _format_potion(Head(potions))
       IN IF potion_data.raised THEN potion_data
          ELSE ForEachPotion(name, Tail(potions),
                             Append(potions_list, PotionEntry(name, potion_data.val)))

\* the outer loop of _wizard_lookup over wizards[:MAX_WIZARD_RESULTS]
RECURSIVE ForEachWizard(_, _)
ForEachWizard(wizards, potions_list) ==
  IF wizards = <<>> THEN Return(potions_list)
  ELSE LET wizard_info == _extract_wizard_info(Head(wizards))
       IN IF wizard_info.raised THEN wizard_info
          ELSE LET it == Iter(wizard_info.val.potions)
               IN IF it.raised THEN it
                  ELSE LET r == ForEachPotion(wizard_info.val.name, it.val, potions_list)
                       IN IF r.raised THEN r ELSE ForEachWizard(Tail(wizards), r.val)

\* the body of the try block after response.json() returned `wizards`
CollectPotions(wizards) ==
  LET sl == Slice(wizards, MAX_WIZARD_RESULTS)
  IN IF sl.raised THEN sl
     ELSE LET it == Iter(sl.val)
          IN IF it.raised THEN it ELSE ForEachWizard(it.val, <<>>)

Response(q, potions_list) ==
  Dict(<< <<"query", Str(q)>>, <<"potions", List(potions_list)>> >>)

\* the error message dropped from the response
ErrorResponse_NoError(q, msg) ==
  Dict(<< <<"query", Str(q)>>, <<"potions", List(<<>>)>> >>)

ErrorResponse(q, msg) ==
  Dict(<< <<"query", Str(q)>>, <<"potions", List(<<>>)>>, <<"error", Str(msg)>> >>)

\* requests.get(...), raise_for_status() and response.json(): what the
\* upstream outcome `up` makes them do
HttpGetJson(up) ==
  CASE up.kind = "fail"    -> Raise("RequestException", <<up.exc>>)
    [] up.kind = "badjson" -> IF up.requestsError
                              THEN Raise("RequestException", <<"Expecting value">>)
                              ELSE Raise("JSONDecodeError", <<"Expecting value">>)
    [] up.kind = "json"    -> Return(up.body)

\* _wizard_lookup(query) when the upstream outcome of its request is `up`:
\* the returned text and the number of HTTP requests it issued
_wizard_lookup(query0, up) ==
  LET q == strip(query0)
  IN IF q = <<>>
     THEN [text |-> json_dumps(ErrorResponse(<<>>, <<"Please provide a search query">>), 0, TRUE),
           requests |-> 0]
     ELSE LET wizards == HttpGetJson(up)
              collected == IF wizards.raised THEN wizards
                           ELSE IF ~Truthy(wizards.val) THEN Return(<<>>)
                           ELSE CollectPotions(wizards.val)
          IN [text |->
                IF collected.raised
                THEN IF collected.exc.type = "RequestException"
                     THEN json_dumps(ErrorResponse(q, <<"API request failed: ">> \o collected.exc.msg), 0, TRUE)
                     ELSE json_dumps(ErrorResponse(q, <<"Unexpected error: ">> \o collected.exc.msg), 0, TRUE)
                ELSE IF wizards.raised = FALSE /\ ~Truthy(wizards.val)
                     THEN json_dumps(Response(q, <<>>), 0, TRUE)
                     ELSE json_dumps(Response(q, collected.val), 0, FALSE),
              requests |-> 1]

(***************************************************************************)
(* The environment: queries, upstream outcomes, wrapped agents             *)
(***************************************************************************)
Chars == {" ", "D"}

SeqsUpTo(S, n) == UNION {[1..k -> S] : k \in 0..n}

\* what the user can type or pass as --query
Lines == SeqsUpTo(Chars, MaxQueryLen)

Felix == Dict(<< <<"name", Str(<<"Felix Felicis">>)>>, <<"effect", Str(<<"Luck">>)>> >>)

Polyjuice == Dict(<< <<"title", Str(<<"Polyjuice">>)>>, <<"description", Str(<<"Disguise">>)>> >>)

Albus == Dict(<< <<"name", Str(<<"Albus Dumbledore">>)>>, <<"elixirs", List(<<Felix>>)>> >>)

Harry == Dict(<< <<"firstName", Str(<<"Harry">>)>>, <<"potions", List(<<Polyjuice, Dict(<<>>)>>)>> >>)

Filch == Dict(<< <<"name", Str(<<"Argus Filch">>)>> >>)

\* a record whose second potion is not an object: processing it fails
Tom == Dict(<< <<"name", Str(<<"Tom Riddle">>)>>, <<"elixirs", List(<<Felix, None>>)>> >>)

WizardRecords == {Albus, Harry, Tom}

\* bodies that are JSON arrays of wizard records, and other JSON values
ArrayBodies == {List(l) : l \in SeqsUpTo(WizardRecords, MaxUpstream)}

OtherBodies ==
  {None, Bool(FALSE), Bool(TRUE), Num(0), Num(7), Str(<<>>), Str(<<"o", "k">>),
   Dict(<<>>), Dict(<< <<"message", Str(<<"Not Found">>)>> >>),
   List(<<None>>), List(<<Str(<<"Albus">>)>>), List(<<Filch>>),
   List(<<Filch, Albus>>), List(<<Harry, Filch, Tom>>),
   List(<< Dict(<< <<"elixirs", Num(7)>> >>) >>),
   List(<< Dict(<< <<"elixirs", Str(<<"x">>)>> >>) >>)}

\* what can happen to the one HTTP request of a lookup: a transport failure
\* (RequestException), a 2xx response whose body is not JSON (response.json()
\* raises requests' JSONDecodeError, a RequestException, or with older
\* requests versions a plain ValueError subclass), or a 2xx JSON body
UpstreamOutcomes ==
  {[kind |-> "fail", exc |-> e] : e \in {"Timeout", "ConnectionError", "HTTPError"}}
  \cup {[kind |-> "badjson", requestsError |-> b] : b \in BOOLEAN}
  \cup {[kind |-> "json", body |-> v] : v \in ArrayBodies \cup OtherBodies}

NoUpstream == [kind |-> "none"]

NoText == [kind |-> "none"]

Pending == [pending |-> TRUE]

\* the wrapped agent object: which attributes hasattr() finds on it
AgentShapes == [hasRun : BOOLEAN, hasStream : BOOLEAN]

NoAgent == [built |-> FALSE]

LlmTexts == {Plain(<<"Felix Felicis is liquid luck.">>), Plain(<<"4", "2">>)}

Chunks == {Dict(<< <<"model", Str(<<"hi">>)>> >>), Str(<<"!">>)}

NoBehaviour == [run |-> Pending, chunks |-> <<>>, streamRaises |-> FALSE]

\* what the wrapped agent does when called: the outcome of its run(), or
\* the chunks its stream() yields and whether it raises after them
Behaviours(agent) ==
  IF agent.hasRun
  THEN {[NoBehaviour EXCEPT !.run = o] :
          o \in {Return(t) : t \in LlmTexts} \cup {Raise("APIError", <<"rate limit">>)}}
  ELSE IF agent.hasStream
  THEN {[NoBehaviour EXCEPT !.chunks = c, !.streamRaises = b] :
          c \in SeqsUpTo(Chunks, MaxChunks), b \in BOOLEAN}
  ELSE {NoBehaviour}

(***************************************************************************)
(* Agent adapter and dispatcher                                            *)
(***************************************************************************)
RECURSIVE Join(_)
\* "".join(parts)
Join(parts) == IF parts = <<>> THEN <<>> ELSE Head(parts) \o Join(Tail(parts))

\* the capabilities tested in the other order: stream before run
_run_llm_agent_StreamFirst(agent, b) ==
  IF agent.hasStream
  THEN [outcome |-> IF b.streamRaises THEN Raise("APIError", <<"rate limit">>)
                    ELSE Return(Plain(Join([i \in 1..Len(b.chunks) |-> PyStr(b.chunks[i])]))),
        runCalls |-> 0, streamCalls |-> 1]
  ELSE IF agent.hasRun
  THEN [outcome |-> b.run, runCalls |-> 1, streamCalls |-> 0]
  ELSE [outcome |-> Raise("RuntimeError", <<"LLM agent has no compatible interface">>),
        runCalls |-> 0, streamCalls |-> 0]

\* HybridAgent._run_llm_agent(query) when the wrapped agent behaves as b:
\* its outcome and how often the agent's run and stream were called
_run_llm_agent(agent, b) ==
  IF agent.hasRun
  THEN [outcome |-> b.run, runCalls |-> 1, streamCalls |-> 0]
  ELSE IF agent.hasStream
  THEN [outcome |-> IF b.streamRaises THEN Raise("APIError", <<"rate limit">>)
                    ELSE Return(Plain(Join([i \in 1..Len(b.chunks) |-> PyStr(b.chunks[i])]))),
        runCalls |-> 0, streamCalls |-> 1]
  ELSE [outcome |-> Raise("RuntimeError", <<"LLM agent has no compatible interface">>),
        runCalls |-> 0, streamCalls |-> 0]

\* the test `"potions" in data` in place of the list's truth value
HasPotions_KeyPresent(text) ==
  LET data == json_loads(text)
  IN ~data.raised /\ HasKey(data.val, "potions")

\* the test of HybridAgent.run: does the tool result carry potions?
HasPotions(text) ==
  LET data == json_loads(text)
  IN ~data.raised /\ Truthy(DictGet(data.val, "potions"))

\* format_output(text)
format_output(text) ==
  LET data == json_loads(text)
  IN IF data.raised THEN text ELSE json_dumps(data.val, 2, FALSE)

(***************************************************************************)
(* State machine                                                           *)
(***************************************************************************)
Init ==
  /\ pc = "main"
  /\ mode = "none"
  /\ llm_agent = NoAgent
  /\ query = <<>>
  /\ upstream = NoUpstream
  /\ tool_result = NoText
  /\ httpRequests = 0
  /\ llmCalls = 0
  /\ runCalls = 0
  /\ streamCalls = 0
  /\ llm_behaviour = NoBehaviour
  /\ result = Pending
  /\ stdout = NoText
  /\ record = None
  /\ normalized = Pending

\* the state a call of agent.run(q) starts from
StartRun(q) ==
  /\ query' = q
  /\ pc' = "run"
  /\ upstream' = NoUpstream
  /\ tool_result' = NoText
  /\ httpRequests' = 0
  /\ llmCalls' = 0
  /\ runCalls' = 0
  /\ streamCalls' = 0
  /\ llm_behaviour' = NoBehaviour
  /\ result' = Pending
  /\ stdout' = NoText

RunVars == <<query, upstream, tool_result, httpRequests, llmCalls, runCalls,
             streamCalls, llm_behaviour, result>>

\* stdout holds what has been printed since the last call of agent.run began

\* main(): build_agent() fails (missing OPENAI_API_KEY, no usable API)
MainFatal ==
  /\ pc = "main"
  /\ pc' = "fatal"
  /\ UNCHANGED <<mode, llm_agent, RunVars, stdout, record, normalized>>

\* main() with --query q: run_query up to the call of agent.run
MainQuery ==
  /\ pc = "main"
  /\ \E q \in Lines \ {<<>>}, a \in AgentShapes :
       /\ llm_agent' = a
       /\ mode' = "query"
       /\ StartRun(q)
  /\ UNCHANGED <<record, normalized>>

\* main() with --repl: run_repl prints its banner
MainRepl ==
  /\ pc = "main"
  /\ \E a \in AgentShapes : llm_agent' = a
  /\ mode' = "repl"
  /\ pc' = "prompt"
  /\ stdout' = Plain(<<"Starting REPL (Ctrl+D or empty line to quit)">>)
  /\ UNCHANGED <<RunVars, record, normalized>>

\* main() with neither option: print_help
MainHelp ==
  /\ pc = "main"
  /\ \E a \in AgentShapes : llm_agent' = a
  /\ mode' = "help"
  /\ pc' = "done"
  /\ stdout' = Plain(<<"usage">>)
  /\ UNCHANGED <<RunVars, record, normalized>>

\* run_repl: input("> ") raises EOFError or KeyboardInterrupt
ReadEnd ==
  /\ pc = "prompt"
  /\ pc' = "done"
  /\ stdout' = Plain(<<>>)
  /\ UNCHANGED <<mode, llm_agent, RunVars, record, normalized>>

\* run_repl: input("> ").strip() is empty
ReadEmpty ==
  /\ pc = "prompt"
  /\ \E line \in Lines : strip(line) = <<>>
  /\ pc' = "done"
  /\ UNCHANGED <<mode, llm_agent, RunVars, stdout, record, normalized>>

\* run_repl: a non-empty line is read and agent.run(user_input) is called
ReadLine ==
  /\ pc = "prompt"
  /\ \E line \in Lines :
       LET user_input == strip(line)
       IN user_input # <<>> /\ StartRun(user_input)
  /\ UNCHANGED <<mode, llm_agent, record, normalized>>

\* HybridAgent.run: tool_result = _wizard_lookup(query)
Lookup ==
  /\ pc = "run"
  /\ \E up \in UpstreamOutcomes :
       LET r == _wizard_lookup(query, up)
       IN /\ tool_result' = r.text
          /\ httpRequests' = httpRequests + r.requests
          /\ upstream' = IF r.requests = 0 THEN NoUpstream ELSE up
  /\ pc' = "dispatch"
  /\ UNCHANGED <<mode, llm_agent, query, llmCalls, runCalls, streamCalls,
                 llm_behaviour, result, stdout, record, normalized>>

\* HybridAgent.run: potions found, the tool result is the answer
ReturnToolResult ==
  /\ pc = "dispatch"
  /\ HasPotions(tool_result)
  /\ result' = Return(tool_result)
  /\ pc' = "print"
  /\ UNCHANGED <<mode, llm_agent, query, upstream, tool_result, httpRequests,
                 llmCalls, runCalls, streamCalls, llm_behaviour, stdout,
                 record, normalized>>

\* HybridAgent.run: no potions, return self._run_llm_agent(query); an
\* exception of the agent path leaves run, run_query / run_repl and main
FallBackToLlm ==
  /\ pc = "dispatch"
  /\ ~HasPotions(tool_result)
  /\ \E b \in Behaviours(llm_agent) :
       LET r == _run_llm_agent(llm_agent, b)
       IN /\ llm_behaviour' = b
          /\ llmCalls' = llmCalls + 1
          /\ runCalls' = runCalls + r.runCalls
          /\ streamCalls' = streamCalls + r.streamCalls
          /\ result' = r.outcome
          /\ pc' = IF r.outcome.raised THEN "crashed" ELSE "print"
  /\ UNCHANGED <<mode, llm_agent, query, upstream, tool_result, httpRequests,
                 stdout, record, normalized>>

\* run_query / run_repl: print(format_output(result))
PrintAnswer ==
  /\ pc = "print"
  /\ stdout' = format_output(result.val)
  /\ pc' = IF mode = "repl" THEN "prompt" ELSE "done"
  /\ UNCHANGED <<mode, llm_agent, RunVars, record, normalized>>

Next ==
  \/ MainFatal
  \/ MainQuery
  \/ MainRepl
  \/ MainHelp
  \/ ReadEnd
  \/ ReadEmpty
  \/ ReadLine
  \/ Lookup
  \/ ReturnToolResult
  \/ FallBackToLlm
  \/ PrintAnswer

Spec == Init /\ [][Next]_vars

(***************************************************************************)
(* The normalizers on their own: each is applied to one input record       *)
(***************************************************************************)
Absent == [t |-> "absent"]

\* the dict with the given pairs, leaving out the keys marked Absent
DictOf(pairs) == Dict(SelectSeq(pairs, LAMBDA p : p[2] # Absent))

WizardInputs ==
  {DictOf(<< <<"potions", p>>, <<"firstName", f>>, <<"elixirs", e>>, <<"name", n>> >>) :
     n \in {Absent, None, Str(<<>>), Str(<<"Albus">>)},
     f \in {Absent, Str(<<>>), Str(<<"Harry">>)},
     e \in {Absent, List(<<>>), List(<<Felix>>), Num(7)},
     p \in {Absent, List(<<>>), List(<<Polyjuice>>)}}

PotionInputs ==
  {DictOf(<< <<"name", n>>, <<"title", t>>, <<"effect", e>>, <<"description", d>> >>) :
     n \in {Absent, Str(<<>>), Str(<<"Felix Felicis">>)},
     t \in {Absent, None, Str(<<"Polyjuice">>)},
     e \in {Absent, Num(0), Str(<<"Luck">>)},
     d \in {Absent, Str(<<>>), Str(<<"Disguise">>)}}

NonObjects == {None, Num(7), Str(<<"Albus">>), List(<<>>)}

NormInputs == WizardInputs \cup PotionInputs \cup NonObjects

InitNorm ==
  /\ pc = "norm"
  /\ record \in NormInputs
  /\ normalized = Pending
  /\ mode = "none"
  /\ llm_agent = NoAgent
  /\ query = <<>>
  /\ upstream = NoUpstream
  /\ tool_result = NoText
  /\ httpRequests = 0
  /\ llmCalls = 0
  /\ runCalls = 0
  /\ streamCalls = 0
  /\ llm_behaviour = NoBehaviour
  /\ result = Pending
  /\ stdout = NoText

ExtractWizard ==
  /\ pc = "norm"
  /\ normalized' = [fn |-> "_extract_wizard_info", out |-> _extract_wizard_info(record)]
  /\ pc' = "normed"
  /\ UNCHANGED <<mode, llm_agent, RunVars, stdout, record>>

FormatPotion ==
  /\ pc = "norm"
  /\ normalized' = [fn |-> "_format_potion", out |-> _format_potion(record)]
  /\ pc' = "normed"
  /\ UNCHANGED <<mode, llm_agent, RunVars, stdout, record>>

NextNorm == ExtractWizard \/ FormatPotion

SpecNorm == InitNorm /\ [][NextNorm]_vars

(***************************************************************************)
(* Properties                                                              *)
(***************************************************************************)
\* the lookup of the current call has returned
LookedUp == tool_result # NoText

\* the current call of agent.run has returned or raised
RunEnded == result # Pending

LookupResponse == json_loads(tool_result).val

ResponseKeys == {LookupResponse.d[i][1] : i \in 1..Len(LookupResponse.d)}

PotionItems == DictGet(LookupResponse, "potions").items

StartsWith(s, prefix) ==
  Len(s) >= Len(prefix) /\ SubSeq(s, 1, Len(prefix)) = prefix

AllWhitespace(s) == \A i \in 1..Len(s) : s[i] \in {" ", "\t"}

RECURSIVE Trimmed(_)
\* the query without its leading and trailing blanks
Trimmed(s) ==
  IF s = <<>> THEN s
  ELSE IF s[1] = " " THEN Trimmed(Tail(s))
  ELSE IF s[Len(s)] = " " THEN Trimmed(SubSeq(s, 1, Len(s) - 1))
  ELSE s

\* the string form of each chunk the wrapped agent can yield
ChunkText(chunk) ==
  CASE chunk = Str(<<"!">>) -> <<"!">>
    [] chunk = Dict(<< <<"model", Str(<<"hi">>)>> >>)
         -> <<"{", "'", "model", "'", ": ", "'", "hi", "'", "}">>

RECURSIVE ConcatChunks(_)
ConcatChunks(chunks) ==
  IF chunks = <<>> THEN <<>> ELSE ChunkText(Head(chunks)) \o ConcatChunks(Tail(chunks))

\* C1: HybridAgent.run follows the dispatch policy in both directions: when
\* the lookup response has potions, run returns the lookup's text unchanged
\* and neither the adapter nor the wrapped agent is called; when it has
\* none (error responses included), the language-model path is entered
\* exactly once, the wrapped agent is called once, and the agent's text
\* (what its run returned, or its chunks joined) is returned verbatim.
\* Until run ends the agent is not called.
C1_DispatchPolicy ==
  /\ (LookedUp /\ ~RunEnded) => llmCalls = 0 /\ runCalls = 0 /\ streamCalls = 0
  /\ RunEnded =>
       IF PotionItems # <<>>
       THEN /\ result = Return(tool_result)
            /\ llmCalls = 0 /\ runCalls = 0 /\ streamCalls = 0
       ELSE /\ llmCalls = 1
            /\ (llm_agent.hasRun \/ llm_agent.hasStream) => runCalls + streamCalls = 1
            /\ llm_agent.hasRun => result = llm_behaviour.run
            /\ (~llm_agent.hasRun /\ llm_agent.hasStream /\ ~llm_behaviour.streamRaises) =>
                 result = Return(Plain(ConcatChunks(llm_behaviour.chunks)))

C1_Witness ==
  /\ pc = "print"
  /\ "error" \in ResponseKeys
  /\ PotionItems = <<>>
  /\ llmCalls = 1
  /\ runCalls = 1
  /\ result = llm_behaviour.run
  /\ ~result.raised

\* C2: for the empty or a whitespace-only query the lookup returns
\* {query: "", potions: [], error: "Please provide a search query"} and
\* issues no HTTP request.
C2_EmptyQueryNoRequest ==
  (LookedUp /\ AllWhitespace(query)) =>
     /\ httpRequests = 0
     /\ upstream = NoUpstream
     /\ tool_result.kind = "json"
     /\ tool_result.v = Dict(<< <<"query", Str(<<>>)>>, <<"potions", List(<<>>)>>,
                                <<"error", Str(<<"Please provide a search query">>)>> >>)

C2_Witness ==
  /\ pc = "dispatch"
  /\ Len(query) > 0
  /\ AllWhitespace(query)
  /\ httpRequests = 0
  /\ "error" \in ResponseKeys

IsEntry(item) ==
  /\ item.t = "dict"
  /\ \/ HasKey(item, "error")
     \/ HasKey(item, "wizard") /\ HasKey(item, "potion_name") /\ HasKey(item, "potion_description")

\* C3: whatever the query and the upstream outcome, the text the lookup
\* returns is a JSON object with a string `query`, a list `potions`, and
\* every element of the list is an object with an `error` key or with the
\* three keys wizard, potion_name, potion_description.
C3_ResponseSchema ==
  LookedUp =>
     /\ tool_result.kind = "json"
     /\ LookupResponse.t = "dict"
     /\ HasKey(LookupResponse, "query")
     /\ DictGet(LookupResponse, "query").t = "str"
     /\ HasKey(LookupResponse, "potions")
     /\ DictGet(LookupResponse, "potions").t = "list"
     /\ \A i \in 1..Len(PotionItems) : IsEntry(PotionItems[i])

C3_Witness ==
  /\ LookedUp
  /\ upstream.kind = "json"
  /\ upstream.body.t = "list"
  /\ Len(PotionItems) >= 3
  /\ \E i \in 1..Len(PotionItems) :
       DictGet(PotionItems[i], "potion_name") = Str(<<"Unknown">>)

\* C4: a transport failure of the upstream request yields exactly
\* {query, potions: [], error} with error starting "API request failed";
\* the lookup still returns a text, at most one HTTP request is issued per
\* call of run, and run falls back to the agent.
C4_TransportFailure ==
  /\ httpRequests <= 1
  /\ (LookedUp /\ upstream.kind = "fail") =>
        /\ httpRequests = 1
        /\ tool_result.kind = "json"
        /\ Len(LookupResponse.d) = 3
        /\ ResponseKeys = {"query", "potions", "error"}
        /\ DictGet(LookupResponse, "query") = Str(Trimmed(query))
        /\ DictGet(LookupResponse, "potions") = List(<<>>)
        /\ DictGet(LookupResponse, "error").t = "str"
        /\ StartsWith(DictGet(LookupResponse, "error").s, <<"API request failed: ">>)
        /\ RunEnded => llmCalls = 1 /\ result # Return(tool_result)

C4_Witness ==
  /\ upstream = [kind |-> "fail", exc |-> "Timeout"]
  /\ RunEnded
  /\ llmCalls = 1
  /\ httpRequests = 1
  /\ DictGet(LookupResponse, "error").s = <<"API request failed: ", "Timeout">>

FalsyBodies == {None, Bool(FALSE), Num(0), Str(<<>>), List(<<>>), Dict(<<>>)}

EmptyResponse == Dict(<< <<"query", Str(Trimmed(query))>>, <<"potions", List(<<>>)>> >>)

\* C5 as stated: after a successful request, a body that is empty, is not a
\* JSON array, or is an empty array yields exactly {query, potions: []}.
C5_AsStated ==
  (LookedUp /\ (upstream.kind = "badjson"
                \/ (upstream.kind = "json" /\ upstream.body.t # "list")
                \/ (upstream.kind = "json" /\ upstream.body = List(<<>>))))
     => LookupResponse = EmptyResponse

\* C5 amended: after a successful request, a body that is a JSON value
\* Python counts as false (empty array, empty object, null, false, 0, empty
\* string) yields exactly {query, potions: []} with no error field; an
\* empty or non-JSON body, and a JSON value that counts as true but is not
\* an array, yield {query, potions: [], error}.
C5_EmptyResult ==
  /\ (LookedUp /\ upstream.kind = "json" /\ upstream.body \in FalsyBodies)
        => LookupResponse = EmptyResponse
  /\ (LookedUp /\ (upstream.kind = "badjson"
                   \/ (upstream.kind = "json" /\ upstream.body.t # "list"
                       /\ upstream.body \notin FalsyBodies)))
        => /\ ResponseKeys = {"query", "potions", "error"}
           /\ DictGet(LookupResponse, "potions") = List(<<>>)
           /\ DictGet(LookupResponse, "query") = Str(Trimmed(query))

C5_Witness ==
  /\ LookedUp
  /\ upstream.kind = "json"
  /\ upstream.body = Num(0)
  /\ LookupResponse = EmptyResponse
  /\ Len(query) > 0

Entry(wizard, potion_name, potion_description) ==
  Dict(<< <<"wizard", Str(<<wizard>>)>>,
          <<"potion_name", Str(<<potion_name>>)>>,
          <<"potion_description", Str(potion_description)>> >>)

WellFormed == {Albus, Harry, Filch}

\* the entries each well-formed record must contribute
ExpectedEntries(w) ==
  CASE w = Albus -> <<Entry("Albus Dumbledore", "Felix Felicis", <<"Luck">>)>>
    [] w = Harry -> <<Entry("Harry", "Polyjuice", <<"Disguise">>),
                      Entry("Harry", "Unknown", <<>>)>>
    [] w = Filch -> <<>>

RECURSIVE ExpectedPotions(_, _)
\* the entries of the first n records of ws, in order
ExpectedPotions(ws, n) ==
  IF ws = <<>> \/ n = 0 THEN <<>>
  ELSE ExpectedEntries(Head(ws)) \o ExpectedPotions(Tail(ws), n - 1)

FirstFive(ws) == SubSeq(ws, 1, IF Len(ws) < 5 THEN Len(ws) ELSE 5)

ArrayBody == LookedUp /\ upstream.kind = "json" /\ upstream.body.t = "list"

FirstFiveWellFormed ==
  \A i \in 1..Len(FirstFive(upstream.body.items)) : upstream.body.items[i] \in WellFormed

\* C6: for an array body whose first five records are well-formed, the
\* potions list is exactly the concatenation, in upstream order, of the
\* entries of the first min(5, n) records, each entry carrying its wizard's
\* display name; a sixth or later record contributes nothing and is not
\* processed (even a record that cannot be processed does no harm there).
C6_FirstFiveConcatenated ==
  (ArrayBody /\ FirstFiveWellFormed) =>
     /\ PotionItems = ExpectedPotions(upstream.body.items, 5)
     /\ "error" \notin ResponseKeys

C6_Witness ==
  /\ ArrayBody
  /\ Len(upstream.body.items) > 5
  /\ FirstFiveWellFormed
  /\ upstream.body.items[6] = Tom
  /\ upstream.body.items[1] = Harry
  /\ upstream.body.items[2] = Albus
  /\ Len(PotionItems) >= 5

SomeRecordFails ==
  \E i \in 1..Len(FirstFive(upstream.body.items)) : upstream.body.items[i] \notin WellFormed

C9_ReplNeverCrashes ==
  mode = "repl" =>
     /\ pc \in {"prompt", "run", "dispatch", "print", "done"}
     /\ (pc = "prompt" /\ RunEnded) => stdout = format_output(result.val)

\* C10: the adapter picks the calling convention in a fixed order: with
\* `run`, run is called once, its result is returned and stream is not
\* called even if present; otherwise with `stream`, stream is called once
\* and the result is the concatenation of the chunks' string forms in
\* arrival order; otherwise the call fails and the error leaves run.
C10_CallingConvention ==
  (RunEnded /\ llmCalls = 1) =>
     /\ llm_agent.hasRun =>
          runCalls = 1 /\ streamCalls = 0 /\ result = llm_behaviour.run
     /\ (~llm_agent.hasRun /\ llm_agent.hasStream) =>
          /\ runCalls = 0 /\ streamCalls = 1
          /\ ~llm_behaviour.streamRaises =>
               result = Return(Plain(ConcatChunks(llm_behaviour.chunks)))
     /\ (~llm_agent.hasRun /\ ~llm_agent.hasStream) =>
          /\ runCalls = 0 /\ streamCalls = 0
          /\ result.raised
          /\ result.exc.type = "RuntimeError"
          /\ pc = "crashed"

C10_Witness ==
  /\ RunEnded
  /\ ~llm_agent.hasRun
  /\ llm_agent.hasStream
  /\ Len(llm_behaviour.chunks) = 2
  /\ llm_behaviour.chunks[1] # llm_behaviour.chunks[2]
  /\ ~result.raised
  /\ result.val.s = ConcatChunks(llm_behaviour.chunks)

Normalized == pc = "normed"

\* a field the fallback chain accepts: present and not empty
Usable(r, k) ==
  HasKey(r, k) /\ DictGet(r, k) \notin {None, Bool(FALSE), Num(0), Str(<<>>), List(<<>>), Dict(<<>>)}

\* first usable field of k1, k2, else the default
Chain(r, k1, k2, default) ==
  IF Usable(r, k1) THEN DictGet(r, k1)
  ELSE IF Usable(r, k2) THEN DictGet(r, k2)
  ELSE default

====
